---- MODULE Spec2Model ----
(***************************************************************************)
(* PerfettoTracer (src/src/perf_tracer/tracer.py): the module/track        *)
(* registry, the per-track open-event stacks, the event log and the        *)
(* record_event context manager.                                           *)
(*                                                                         *)
(* Representation                                                          *)
(*  - A str that takes part in a concatenation (module and track names,    *)
(*    registry keys) is a sequence of one-character strings, so that       *)
(*    f"{module_name}.{track_name}" is really a concatenation.             *)
(*  - Optional[T] is <<>> for None and <<v>> for a value v.                *)
(*  - A dict whose key order is observable is a sequence of [key, value]   *)
(*    entries in insertion order.                                          *)
(*  - A time in microseconds is held as the integer number of thousandths  *)
(*    of a microsecond: cycles * ns_per_cycle / 1000.0 us is the integer   *)
(*    cycles * ns_per_cycle here (float rounding is not modelled).         *)
(***************************************************************************)
EXTENDS Integers, Sequences, FiniteSets, TLC

VARIABLES
    ns_per_cycle,          \* self.ns_per_cycle
    _next_tid,             \* self._next_tid
    _next_pid,             \* self._next_pid
    _registered_modules,   \* self._registered_modules : Dict[str, ModuleInfo]
    _registered_tracks,    \* self._registered_tracks  : Dict[str, TrackInfo]
    _open_events,          \* self._open_events : Dict[TrackInfo, List[_OpenEvent]]
    _events,               \* self._events : List[Dict]
    ctx,                   \* the record_event generators suspended at their yield, innermost last
    _global_instance,      \* PerfettoTracer._global_instance : Optional[PerfettoTracer]
    instances,             \* the tracers the classmethods have constructed, in order of construction
    last                   \* what the last call was and what its caller observed

vars == <<ns_per_cycle, _next_tid, _next_pid, _registered_modules,
          _registered_tracks, _open_events, _events, ctx,
          _global_instance, instances, last>>

-----------------------------------------------------------------------------
(* Bounds of the model *)

\* the records of the event log, in each of the three specifications
MaxLog == 4
MaxRun == 5
MaxAll == 4
\* and where the conversion is exercised
MaxConv == 6
\* and where two tracks have events
MaxTwo == 6
\* record_event regions open at one time
MaxCtx == 1
\* tracers constructed by init_global_tracer
MaxInstances == 4

(* Program constants *)

FirstTid == 1000
FirstPid == 100000

(* Inputs *)

None == <<>>
Some(v) == <<v>>
IsNone(x) == x = <<>>
Val(x) == x[1]

Dot == <<".">>
DefaultModuleName == <<"d", "e", "f", "a", "u", "l", "t">>
ModuleNames == { <<"a">>, <<"a", ".", "b">>, DefaultModuleName }
TrackNames == { <<"c">>, <<"b", ".", "c">> }
EventNames == { "outer", "inner" }
CompleteNames == { "calc" }
Categories == { None }
DisplayTimeUnits == { "ns", "us" }
Cycles == { -1, 1 }
OptCycles == { None } \cup { Some(c) : c \in Cycles }
OptEventNames == { None } \cup { Some(n) : n \in EventNames }
Scales == { 50 }
\* the thinner inputs: of the events where the registry is exercised in full,
\* and of complete_event's start_ts
FewCycles == { 1 }
FewNames == { "outer" }
\* the track name of the runs where the events are exercised in full
RunTrackNames == { <<"c">> }
\* the module name registered where every call of the interface is admitted
FewModuleNames == { <<"a">> }
\* the scales and the cycle values where the conversion is exercised
ConvScales == { 10, 50 }
ConvStartCycles == { -10, 10, 20 }
ConvEndCycles == { -10, 40, 60 }
ConvStarts == { -10, 100 }
ConvEnds == { None, Some(160) }
ConvDurs == { None, Some(60) }
\* the ns_per_cycle arguments of init_global_tracer
GlobalScales == { 1, 5, 50 }
\* what the guarded work of a record_event region may raise
WorkFailures == { "RuntimeError", "ZeroDivisionError" }

-----------------------------------------------------------------------------
(* Python dict, in insertion order *)

DictHas(d, k) == \E i \in 1..Len(d) : d[i].key = k
DictGet(d, k) == d[CHOOSE i \in 1..Len(d) : d[i].key = k].value
DictSet(d, k, v) ==
    IF DictHas(d, k)
    THEN [i \in 1..Len(d) |-> IF d[i].key = k THEN [key |-> k, value |-> v] ELSE d[i]]
    ELSE Append(d, [key |-> k, value |-> v])
DictKeys(d) == [i \in 1..Len(d) |-> d[i].key]
DictValues(d) == { d[i].value : i \in 1..Len(d) }

(* The dataclasses *)

ModuleInfo(pid, module_name) == [pid |-> pid, module_name |-> module_name]
TrackInfo(module_info, tid, track_name) ==
    [module_info |-> module_info, tid |-> tid, track_name |-> track_name]
OpenEvent(name, ts_us) == [name |-> name, ts_us |-> ts_us]

\* a TrackInfo no register_track call returned: TrackInfo() with the dataclass defaults
DefaultTrackInfo == TrackInfo(ModuleInfo(1, DefaultModuleName), -1, <<>>)

(* The records of the event log *)

ProcessNameEvent(pid, module_name) ==
    [ph |-> "M", pid |-> pid, name |-> "process_name", args |-> [name |-> module_name]]
ThreadNameEvent(pid, tid, track_name) ==
    [ph |-> "M", pid |-> pid, tid |-> tid, name |-> "thread_name",
     args |-> [name |-> track_name]]
BeginEvent(track_info, ts_us, event_name, category) ==
    [ph |-> "B", pid |-> track_info.module_info.pid, tid |-> track_info.tid,
     ts |-> ts_us, name |-> event_name, cat |-> category]
EndEvent(track_info, ts_us, category) ==
    [ph |-> "E", pid |-> track_info.module_info.pid, tid |-> track_info.tid,
     ts |-> ts_us, cat |-> category]
CompleteEvent(track_info, start_us, dur_us, name, category) ==
    [ph |-> "X", pid |-> track_info.module_info.pid, tid |-> track_info.tid,
     ts |-> start_us, dur |-> dur_us, name |-> name, cat |-> category]

-----------------------------------------------------------------------------
(* _cycles_to_us: float(cycles) * (ns_per_cycle / 1000.0), in thousandths of a us *)

\* as _cycles_to_us, in whole microseconds
_cycles_to_us_whole(cycles) == ((cycles * ns_per_cycle) \div 1000) * 1000

_cycles_to_us(cycles) == cycles * ns_per_cycle

\* the key of the track registry: f"{module_info.module_name}.{track_name}"
track_key(module_name, track_name) == module_name \o Dot \o track_name

\* what a call reports: the outcome is "ok" or the exception raised
Report(op, outcome, ret) == [op |-> op, outcome |-> outcome, ret |-> ret]

\* the tracks a caller holds: the ones register_track returned
TrackInputs == DictValues(_registered_tracks)
\* and one it has made itself
AnyTrackInputs == TrackInputs \cup { DefaultTrackInfo }

-----------------------------------------------------------------------------
Init ==
    /\ ns_per_cycle \in Scales
    /\ _next_tid = FirstTid
    /\ _next_pid = FirstPid
    /\ _registered_modules = <<>>
    /\ _registered_tracks = <<>>
    /\ _open_events = <<>>
    /\ _events = <<>>
    /\ ctx = <<>>
    /\ _global_instance = None
    /\ instances = <<>>
    /\ last = Report("__init__", "ok", None)

\* a tracer constructed with one of the scales of the conversion
InitConv ==
    /\ ns_per_cycle \in ConvScales
    /\ _next_tid = FirstTid
    /\ _next_pid = FirstPid
    /\ _registered_modules = <<>>
    /\ _registered_tracks = <<>>
    /\ _open_events = <<>>
    /\ _events = <<>>
    /\ ctx = <<>>
    /\ _global_instance = None
    /\ instances = <<>>
    /\ last = Report("__init__", "ok", None)

-----------------------------------------------------------------------------
(* register_module as a function of the state: what it returns and what it
   leaves in _next_pid, _registered_modules and _events *)

\* as register_module_call, without the test of lines 86-87
register_module_call_always_new(module_name) ==
    LET pid == _next_pid
        module_info == ModuleInfo(pid, module_name)
    IN  [ret |-> module_info,
         next_pid |-> _next_pid + 1,
         modules |-> DictSet(_registered_modules, module_name, module_info),
         events |-> Append(_events, ProcessNameEvent(pid, module_name))]

register_module_call(module_name) ==
    IF DictHas(_registered_modules, module_name)
    THEN [ret |-> DictGet(_registered_modules, module_name),
          next_pid |-> _next_pid,
          modules |-> _registered_modules,
          events |-> _events]
    ELSE LET pid == _next_pid
             module_info == ModuleInfo(pid, module_name)
         IN  [ret |-> module_info,
              next_pid |-> _next_pid + 1,
              modules |-> DictSet(_registered_modules, module_name, module_info),
              events |-> Append(_events, ProcessNameEvent(pid, module_name))]

register_module(module_name) ==
    LET r == register_module_call(module_name) IN
    /\ _next_pid' = r.next_pid
    /\ _registered_modules' = r.modules
    /\ _events' = r.events
    /\ last' = Report("register_module", "ok", r.ret)
    /\ UNCHANGED <<_global_instance, instances, ns_per_cycle, _next_tid, _registered_tracks, _open_events, ctx>>


(* register_track as a function of the state *)

\* as register_track_call, without the increment of line 121
register_track_call_no_increment(track_name, module_info_arg) ==
    LET m == IF IsNone(module_info_arg)
             THEN register_module_call(DefaultModuleName)
             ELSE [ret |-> Val(module_info_arg),
                   next_pid |-> _next_pid,
                   modules |-> _registered_modules,
                   events |-> _events]
        module_info == m.ret
        key == track_key(module_info.module_name, track_name)
    IN  IF DictHas(_registered_tracks, key)
        THEN [ret |-> DictGet(_registered_tracks, key),
              next_pid |-> m.next_pid,
              modules |-> m.modules,
              next_tid |-> _next_tid,
              tracks |-> _registered_tracks,
              open |-> _open_events,
              events |-> m.events]
        ELSE LET tid == _next_tid
                 track_info == TrackInfo(module_info, tid, track_name)
             IN  [ret |-> track_info,
                  next_pid |-> m.next_pid,
                  modules |-> m.modules,
                  next_tid |-> _next_tid,
                  tracks |-> DictSet(_registered_tracks, key, track_info),
                  open |-> (track_info :> <<>>) @@ _open_events,
                  events |-> Append(m.events,
                                    ThreadNameEvent(module_info.pid, tid, track_name))]

\* as register_track_call, making a new "default" module at every call without a module
register_track_call_fresh_default(track_name, module_info_arg) ==
    LET m == IF IsNone(module_info_arg)
             THEN register_module_call_always_new(DefaultModuleName)
             ELSE [ret |-> Val(module_info_arg),
                   next_pid |-> _next_pid,
                   modules |-> _registered_modules,
                   events |-> _events]
        module_info == m.ret
        key == track_key(module_info.module_name, track_name)
    IN  IF DictHas(_registered_tracks, key)
        THEN [ret |-> DictGet(_registered_tracks, key),
              next_pid |-> m.next_pid,
              modules |-> m.modules,
              next_tid |-> _next_tid,
              tracks |-> _registered_tracks,
              open |-> _open_events,
              events |-> m.events]
        ELSE LET tid == _next_tid
                 track_info == TrackInfo(module_info, tid, track_name)
             IN  [ret |-> track_info,
                  next_pid |-> m.next_pid,
                  modules |-> m.modules,
                  next_tid |-> _next_tid + 1,
                  tracks |-> DictSet(_registered_tracks, key, track_info),
                  open |-> (track_info :> <<>>) @@ _open_events,
                  events |-> Append(m.events,
                                    ThreadNameEvent(module_info.pid, tid, track_name))]

register_track_call(track_name, module_info_arg) ==
    LET m == IF IsNone(module_info_arg)
             THEN register_module_call(DefaultModuleName)
             ELSE [ret |-> Val(module_info_arg),
                   next_pid |-> _next_pid,
                   modules |-> _registered_modules,
                   events |-> _events]
        module_info == m.ret
        key == track_key(module_info.module_name, track_name)
    IN  IF DictHas(_registered_tracks, key)
        THEN [ret |-> DictGet(_registered_tracks, key),
              next_pid |-> m.next_pid,
              modules |-> m.modules,
              next_tid |-> _next_tid,
              tracks |-> _registered_tracks,
              open |-> _open_events,
              events |-> m.events]
        ELSE LET tid == _next_tid
                 track_info == TrackInfo(module_info, tid, track_name)
             IN  [ret |-> track_info,
                  next_pid |-> m.next_pid,
                  modules |-> m.modules,
                  next_tid |-> _next_tid + 1,
                  tracks |-> DictSet(_registered_tracks, key, track_info),
                  open |-> (track_info :> <<>>) @@ _open_events,
                  events |-> Append(m.events,
                                    ThreadNameEvent(module_info.pid, tid, track_name))]

\* the modules a caller can pass: omitted, or one register_module returned
ModuleInputs == { None } \cup { Some(m) : m \in DictValues(_registered_modules) }

register_track(track_name, module_info_arg) ==
    LET r == register_track_call(track_name, module_info_arg) IN
    /\ _next_pid' = r.next_pid
    /\ _registered_modules' = r.modules
    /\ _next_tid' = r.next_tid
    /\ _registered_tracks' = r.tracks
    /\ _open_events' = r.open
    /\ _events' = r.events
    /\ last' = Report("register_track", "ok", r.ret)
    /\ UNCHANGED <<_global_instance, instances, ns_per_cycle, ctx>>

-----------------------------------------------------------------------------
(* start_event: the Begin record is appended before the stack is looked up,
   so a track that is no key of _open_events leaves the record behind and
   raises KeyError *)

\* as start_event_call, with the open event put below the ones already open
start_event_call_push_below(track_info, ts_cycles, event_name, category) ==
    LET ts_us == _cycles_to_us(ts_cycles)
        events == Append(_events, BeginEvent(track_info, ts_us, event_name, category))
    IN  IF track_info \in DOMAIN _open_events
        THEN [outcome |-> "ok",
              events |-> events,
              open |-> [_open_events EXCEPT ![track_info] =
                            <<OpenEvent(event_name, ts_us)>> \o @]]
        ELSE [outcome |-> "KeyError", events |-> events, open |-> _open_events]

\* as start_event_call, with a thread_name record put out ahead of the Begin record
start_event_call_names_thread(track_info, ts_cycles, event_name, category) ==
    LET ts_us == _cycles_to_us(ts_cycles)
        named == Append(_events, ThreadNameEvent(track_info.module_info.pid,
                                                 track_info.tid, track_info.track_name))
        events == Append(named, BeginEvent(track_info, ts_us, event_name, category))
    IN  IF track_info \in DOMAIN _open_events
        THEN [outcome |-> "ok",
              events |-> events,
              open |-> [_open_events EXCEPT ![track_info] =
                            Append(@, OpenEvent(event_name, ts_us))]]
        ELSE [outcome |-> "KeyError", events |-> events, open |-> _open_events]

\* as start_event_call, with the open event put on the stack of every track
start_event_call_every_track(track_info, ts_cycles, event_name, category) ==
    LET ts_us == _cycles_to_us(ts_cycles)
        events == Append(_events, BeginEvent(track_info, ts_us, event_name, category))
    IN  IF track_info \in DOMAIN _open_events
        THEN [outcome |-> "ok",
              events |-> events,
              open |-> [t \in DOMAIN _open_events |->
                            Append(_open_events[t], OpenEvent(event_name, ts_us))]]
        ELSE [outcome |-> "KeyError", events |-> events, open |-> _open_events]

start_event_call(track_info, ts_cycles, event_name, category) ==
    LET ts_us == _cycles_to_us(ts_cycles)
        events == Append(_events, BeginEvent(track_info, ts_us, event_name, category))
    IN  IF track_info \in DOMAIN _open_events
        THEN [outcome |-> "ok",
              events |-> events,
              open |-> [_open_events EXCEPT ![track_info] =
                            Append(@, OpenEvent(event_name, ts_us))]]
        ELSE [outcome |-> "KeyError", events |-> events, open |-> _open_events]

start_event(track_info, ts_cycles, event_name, category) ==
    LET r == start_event_call(track_info, ts_cycles, event_name, category) IN
    /\ _events' = r.events
    /\ _open_events' = r.open
    /\ last' = Report("start_event", r.outcome, None)
    /\ UNCHANGED <<_global_instance, instances, ns_per_cycle, _next_tid, _next_pid, _registered_modules,
                   _registered_tracks, ctx>>

(* end_event *)

\* as end_event_call, with the pop of line 186 left out
end_event_call_no_pop(track_info, ts_cycles, name, category) ==
    IF track_info \notin DOMAIN _open_events \/ _open_events[track_info] = <<>>
    THEN [outcome |-> "ValueError:NoOpenEvents", events |-> _events, open |-> _open_events]
    ELSE LET stack == _open_events[track_info]
             open_event == stack[Len(stack)]
         IN  IF ~IsNone(name) /\ open_event.name # Val(name)
             THEN [outcome |-> "ValueError:NameMismatch",
                   events |-> _events, open |-> _open_events]
             ELSE LET ts_us == _cycles_to_us(ts_cycles) IN
                  [outcome |-> "ok",
                   events |-> Append(_events, EndEvent(track_info, ts_us, category)),
                   open |-> _open_events]

\* as end_event_call, with the name looked for in the whole stack, not at its top
end_event_call_any_open(track_info, ts_cycles, name, category) ==
    IF track_info \notin DOMAIN _open_events \/ _open_events[track_info] = <<>>
    THEN [outcome |-> "ValueError:NoOpenEvents", events |-> _events, open |-> _open_events]
    ELSE LET stack == _open_events[track_info]
         IN  IF ~IsNone(name) /\ \A i \in 1..Len(stack) : stack[i].name # Val(name)
             THEN [outcome |-> "ValueError:NameMismatch",
                   events |-> _events, open |-> _open_events]
             ELSE LET ts_us == _cycles_to_us(ts_cycles) IN
                  [outcome |-> "ok",
                   events |-> Append(_events, EndEvent(track_info, ts_us, category)),
                   open |-> [_open_events EXCEPT ![track_info] =
                                 SubSeq(stack, 1, Len(stack) - 1)]]

\* as end_event_call, refusing a timestamp before the one of the open event
end_event_call_checks_time(track_info, ts_cycles, name, category) ==
    IF track_info \notin DOMAIN _open_events \/ _open_events[track_info] = <<>>
    THEN [outcome |-> "ValueError:NoOpenEvents", events |-> _events, open |-> _open_events]
    ELSE LET stack == _open_events[track_info]
             open_event == stack[Len(stack)]
             ts_us == _cycles_to_us(ts_cycles)
         IN  IF ~IsNone(name) /\ open_event.name # Val(name)
             THEN [outcome |-> "ValueError:NameMismatch",
                   events |-> _events, open |-> _open_events]
             ELSE IF ts_us < open_event.ts_us
                  THEN [outcome |-> "ValueError:EndBeforeBegin",
                        events |-> _events, open |-> _open_events]
                  ELSE [outcome |-> "ok",
                        events |-> Append(_events, EndEvent(track_info, ts_us, category)),
                        open |-> [_open_events EXCEPT ![track_info] =
                                      SubSeq(stack, 1, Len(stack) - 1)]]

end_event_call(track_info, ts_cycles, name, category) ==
    IF track_info \notin DOMAIN _open_events \/ _open_events[track_info] = <<>>
    THEN [outcome |-> "ValueError:NoOpenEvents", events |-> _events, open |-> _open_events]
    ELSE LET stack == _open_events[track_info]
             open_event == stack[Len(stack)]
         IN  IF ~IsNone(name) /\ open_event.name # Val(name)
             THEN [outcome |-> "ValueError:NameMismatch",
                   events |-> _events, open |-> _open_events]
             ELSE LET ts_us == _cycles_to_us(ts_cycles) IN
                  [outcome |-> "ok",
                   events |-> Append(_events, EndEvent(track_info, ts_us, category)),
                   open |-> [_open_events EXCEPT ![track_info] =
                                 SubSeq(stack, 1, Len(stack) - 1)]]

end_event(track_info, ts_cycles, name, category) ==
    LET r == end_event_call(track_info, ts_cycles, name, category) IN
    /\ _events' = r.events
    /\ _open_events' = r.open
    /\ last' = Report("end_event", r.outcome, None)
    /\ UNCHANGED <<_global_instance, instances, ns_per_cycle, _next_tid, _next_pid, _registered_modules,
                   _registered_tracks, ctx>>

(* complete_event *)

\* as complete_event_call, with a duration of zero refused too
complete_event_call_positive(track_info, start_ts, end_ts, dur, name, category) ==
    LET start_us == _cycles_to_us(start_ts) IN
    IF IsNone(end_ts) = IsNone(dur)
    THEN [outcome |-> "ValueError:ExactlyOne", events |-> _events]
    ELSE LET dur_us == IF IsNone(dur)
                       THEN _cycles_to_us(Val(end_ts)) - start_us
                       ELSE _cycles_to_us(Val(dur))
         IN  IF dur_us <= 0
             THEN [outcome |-> "ValueError:NegativeDuration", events |-> _events]
             ELSE [outcome |-> "ok",
                   events |-> Append(_events,
                       CompleteEvent(track_info, start_us, dur_us, name, category))]

\* as complete_event_call, with the record appended before the duration is checked
complete_event_call_append_first(track_info, start_ts, end_ts, dur, name, category) ==
    LET start_us == _cycles_to_us(start_ts) IN
    IF IsNone(end_ts) = IsNone(dur)
    THEN [outcome |-> "ValueError:ExactlyOne", events |-> _events]
    ELSE LET dur_us == IF IsNone(dur)
                       THEN _cycles_to_us(Val(end_ts)) - start_us
                       ELSE _cycles_to_us(Val(dur))
             events == Append(_events,
                           CompleteEvent(track_info, start_us, dur_us, name, category))
         IN  IF dur_us < 0
             THEN [outcome |-> "ValueError:NegativeDuration", events |-> events]
             ELSE [outcome |-> "ok", events |-> events]

complete_event_call(track_info, start_ts, end_ts, dur, name, category) ==
    LET start_us == _cycles_to_us(start_ts) IN
    IF IsNone(end_ts) = IsNone(dur)
    THEN [outcome |-> "ValueError:ExactlyOne", events |-> _events]
    ELSE LET dur_us == IF IsNone(dur)
                       THEN _cycles_to_us(Val(end_ts)) - start_us
                       ELSE _cycles_to_us(Val(dur))
         IN  IF dur_us < 0
             THEN [outcome |-> "ValueError:NegativeDuration", events |-> _events]
             ELSE [outcome |-> "ok",
                   events |-> Append(_events,
                       CompleteEvent(track_info, start_us, dur_us, name, category))]

complete_event(track_info, start_ts, end_ts, dur, name, category) ==
    LET r == complete_event_call(track_info, start_ts, end_ts, dur, name, category) IN
    /\ _events' = r.events
    /\ last' = Report("complete_event", r.outcome, None)
    /\ UNCHANGED <<_global_instance, instances, ns_per_cycle, _next_tid, _next_pid, _registered_modules,
                   _registered_tracks, _open_events, ctx>>

-----------------------------------------------------------------------------
(* record_event, a generator under @contextmanager.  Entering runs it up to
   its yield: time_fn(), then start_event; a start_event that raises ends the
   generator before the try, so no region is entered.  The guarded work is
   the caller's: while a region is open every operation of the tracer may be
   called.  Leaving the region runs the finally: time_fn(), then end_event
   with neither name nor category.  An exception raised by that end_event
   leaves the generator in place of the one thrown into it. *)

Frame(track_info, name, category) ==
    [track_info |-> track_info, name |-> name, category |-> category,
     \* for the properties: the stack depth and the log length on entry
     entry_depth |-> IF track_info \in DOMAIN _open_events
                     THEN Len(_open_events[track_info]) ELSE 0,
     entry_log |-> Len(_events)]

record_event_enter(track_info, start_cycles, name, category) ==
    LET r == start_event_call(track_info, start_cycles, name, category) IN
    /\ Len(ctx) < MaxCtx \/ r.outcome # "ok"
    /\ _events' = r.events
    /\ _open_events' = r.open
    /\ ctx' = IF r.outcome = "ok"
              THEN Append(ctx, Frame(track_info, name, category))
              ELSE ctx
    /\ last' = Report("record_event.enter", r.outcome, None)
    /\ UNCHANGED <<_global_instance, instances, ns_per_cycle, _next_tid, _next_pid, _registered_modules,
                   _registered_tracks>>

\* the guarded work completes: next(gen) resumes the generator after its yield
record_event_exit(end_cycles) ==
    /\ ctx # <<>>
    /\ LET frame == ctx[Len(ctx)]
           r == end_event_call(frame.track_info, end_cycles, None, None)
       IN  /\ _events' = r.events
           /\ _open_events' = r.open
           /\ ctx' = SubSeq(ctx, 1, Len(ctx) - 1)
           /\ last' = Report("record_event.exit", r.outcome, None)
    /\ UNCHANGED <<_global_instance, instances, ns_per_cycle, _next_tid, _next_pid, _registered_modules,
                   _registered_tracks>>

\* as record_event_throw, without the try/finally: the exception thrown in at
\* the yield leaves the generator at once
record_event_throw_no_finally(failure, end_cycles) ==
    /\ ctx # <<>>
    /\ ctx' = SubSeq(ctx, 1, Len(ctx) - 1)
    /\ last' = Report("record_event.throw", failure, None)
    /\ UNCHANGED <<_global_instance, instances, ns_per_cycle, _next_tid, _next_pid, _registered_modules,
                   _registered_tracks, _open_events, _events>>

\* the guarded work raises failure: gen.throw(failure) resumes it at its yield
record_event_throw(failure, end_cycles) ==
    /\ ctx # <<>>
    /\ LET frame == ctx[Len(ctx)]
           r == end_event_call(frame.track_info, end_cycles, None, None)
       IN  /\ _events' = r.events
           /\ _open_events' = r.open
           /\ ctx' = SubSeq(ctx, 1, Len(ctx) - 1)
           /\ last' = Report("record_event.throw",
                             IF r.outcome = "ok" THEN failure ELSE r.outcome,
                             None)
    /\ UNCHANGED <<_global_instance, instances, ns_per_cycle, _next_tid, _next_pid, _registered_modules,
                   _registered_tracks>>

-----------------------------------------------------------------------------
(* The lookups *)

get_module(module_name) ==
    /\ last' = Report("get_module", "ok",
                      IF DictHas(_registered_modules, module_name)
                      THEN Some(DictGet(_registered_modules, module_name))
                      ELSE None)
    /\ UNCHANGED <<_global_instance, instances, ns_per_cycle, _next_tid, _next_pid, _registered_modules,
                   _registered_tracks, _open_events, _events, ctx>>

get_track(track_name, module_name) ==
    LET key == track_key(module_name, track_name) IN
    /\ last' = Report("get_track", "ok",
                      IF DictHas(_registered_tracks, key)
                      THEN Some(DictGet(_registered_tracks, key))
                      ELSE None)
    /\ UNCHANGED <<_global_instance, instances, ns_per_cycle, _next_tid, _next_pid, _registered_modules,
                   _registered_tracks, _open_events, _events, ctx>>

list_modules ==
    /\ last' = Report("list_modules", "ok", DictKeys(_registered_modules))
    /\ UNCHANGED <<_global_instance, instances, ns_per_cycle, _next_tid, _next_pid, _registered_modules,
                   _registered_tracks, _open_events, _events, ctx>>

list_tracks ==
    /\ last' = Report("list_tracks", "ok", DictKeys(_registered_tracks))
    /\ UNCHANGED <<_global_instance, instances, ns_per_cycle, _next_tid, _next_pid, _registered_modules,
                   _registered_tracks, _open_events, _events, ctx>>

-----------------------------------------------------------------------------
(* save: the document handed to json.dump is what the call puts out; the
   write to the file system is outside the tracer *)

\* as save, refusing a log that has unclosed events
save_closed_only(display_time_unit) ==
    /\ last' = IF \E t \in DOMAIN _open_events : _open_events[t] # <<>>
               THEN Report("save", "ValueError:OpenEvents", None)
               ELSE Report("save", "ok",
                           [traceEvents |-> _events, displayTimeUnit |-> display_time_unit])
    /\ UNCHANGED <<_global_instance, instances, ns_per_cycle, _next_tid, _next_pid, _registered_modules,
                   _registered_tracks, _open_events, _events, ctx>>

save(display_time_unit) ==
    /\ last' = Report("save", "ok",
                      [traceEvents |-> _events, displayTimeUnit |-> display_time_unit])
    /\ UNCHANGED <<_global_instance, instances, ns_per_cycle, _next_tid, _next_pid, _registered_modules,
                   _registered_tracks, _open_events, _events, ctx>>

-----------------------------------------------------------------------------
(* The global tracer.  A tracer object is known by its identity, its place
   in instances; instances[i] holds what its constructor set. *)

NewTracer(scale) ==
    [ns_per_cycle |-> scale, _next_tid |-> FirstTid, _next_pid |-> FirstPid,
     _registered_modules |-> <<>>, _registered_tracks |-> <<>>,
     _open_events |-> <<>>, _events |-> <<>>]

\* as get_global_tracer, setting the pointer up on a read that finds None
get_global_tracer_lazy ==
    /\ IF IsNone(_global_instance)
       THEN /\ Len(instances) < MaxInstances
            /\ instances' = Append(instances, NewTracer(1))
            /\ _global_instance' = Some(Len(instances'))
       ELSE UNCHANGED <<_global_instance, instances>>
    /\ last' = Report("get_global_tracer", "ok", _global_instance')
    /\ UNCHANGED <<ns_per_cycle, _next_tid, _next_pid, _registered_modules,
                   _registered_tracks, _open_events, _events, ctx>>

init_global_tracer(scale) ==
    /\ Len(instances) < MaxInstances
    /\ instances' = Append(instances, NewTracer(scale))
    /\ _global_instance' = Some(Len(instances'))
    /\ last' = Report("init_global_tracer", "ok", _global_instance')
    /\ UNCHANGED <<ns_per_cycle, _next_tid, _next_pid, _registered_modules,
                   _registered_tracks, _open_events, _events, ctx>>

get_global_tracer ==
    /\ last' = IF IsNone(_global_instance)
               THEN Report("get_global_tracer", "RuntimeError", None)
               ELSE Report("get_global_tracer", "ok", _global_instance)
    /\ UNCHANGED <<_global_instance, instances, ns_per_cycle, _next_tid, _next_pid,
                   _registered_modules, _registered_tracks, _open_events, _events, ctx>>

-----------------------------------------------------------------------------
(* The registry in full: every module and track name, with the tracks its
   own register_track returned, and on them the events of one timestamp and
   one name.  A call that would leave more than MaxLog records in the event
   log is not taken. *)

InLog == Len(_events') <= MaxLog

Next ==
    \/ \E n \in ModuleNames : register_module(n) /\ InLog
    \/ \E n \in TrackNames, m \in ModuleInputs : register_track(n, m) /\ InLog
    \/ \E t \in TrackInputs, c \in FewCycles, n \in FewNames, k \in Categories :
           start_event(t, c, n, k) /\ InLog
    \/ \E t \in TrackInputs, c \in FewCycles, n \in OptEventNames, k \in Categories :
           end_event(t, c, n, k) /\ InLog
    \/ \E t \in TrackInputs, s \in FewCycles, e \in OptCycles, d \in OptCycles,
          n \in CompleteNames, k \in Categories :
           complete_event(t, s, e, d, n, k) /\ InLog
    \/ \E t \in TrackInputs, c \in FewCycles, n \in FewNames, k \in Categories :
           record_event_enter(t, c, n, k) /\ InLog
    \/ \E c \in FewCycles : record_event_exit(c) /\ InLog
    \/ \E f \in WorkFailures, c \in FewCycles : record_event_throw(f, c) /\ InLog

Spec == Init /\ [][Next]_vars

(* Every call the interface admits: also the lookups, save, and the calls
   made with a TrackInfo that register_track never returned.  A call that
   would leave more than MaxAll records in the event log is not taken. *)

InAll == Len(_events') <= MaxAll

NextAll ==
    \/ \E n \in FewModuleNames : register_module(n) /\ InAll
    \/ \E n \in RunTrackNames, m \in ModuleInputs : register_track(n, m) /\ InAll
    \/ \E t \in AnyTrackInputs, c \in FewCycles, n \in FewNames, k \in Categories :
           start_event(t, c, n, k) /\ InAll
    \/ \E t \in AnyTrackInputs, c \in FewCycles, n \in OptEventNames, k \in Categories :
           end_event(t, c, n, k) /\ InAll
    \/ \E t \in AnyTrackInputs, s \in FewCycles, e \in OptCycles, d \in OptCycles,
          n \in CompleteNames, k \in Categories :
           complete_event(t, s, e, d, n, k) /\ InAll
    \/ \E t \in AnyTrackInputs, c \in FewCycles, n \in FewNames, k \in Categories :
           record_event_enter(t, c, n, k) /\ InAll
    \/ \E c \in FewCycles : record_event_exit(c) /\ InAll
    \/ \E f \in WorkFailures, c \in FewCycles : record_event_throw(f, c) /\ InAll
    \/ \E n \in ModuleNames : get_module(n)
    \/ \E n \in TrackNames, m \in ModuleNames : get_track(n, m)
    \/ list_modules
    \/ list_tracks
    \/ \E u \in DisplayTimeUnits : save(u)

SpecAll == Init /\ [][NextAll]_vars

(* The events in full, as the tests drive them: one track registered with
   the module omitted, and on it every timestamp and name.  A call that
   would leave more than MaxRun records in the event log is not taken. *)

InRun == Len(_events') <= MaxRun

NextRun ==
    \/ \E n \in RunTrackNames : register_track(n, None) /\ InRun
    \/ \E t \in TrackInputs, c \in Cycles, n \in EventNames, k \in Categories :
           start_event(t, c, n, k) /\ InRun
    \/ \E t \in TrackInputs, c \in Cycles, n \in OptEventNames, k \in Categories :
           end_event(t, c, n, k) /\ InRun
    \/ \E t \in TrackInputs, s \in FewCycles, e \in OptCycles, d \in OptCycles,
          n \in CompleteNames, k \in Categories :
           complete_event(t, s, e, d, n, k) /\ InRun
    \/ \E t \in TrackInputs, c \in Cycles, n \in EventNames, k \in Categories :
           record_event_enter(t, c, n, k) /\ InRun
    \/ \E c \in Cycles : record_event_exit(c) /\ InRun
    \/ \E f \in WorkFailures, c \in Cycles : record_event_throw(f, c) /\ InRun

SpecRun == Init /\ [][NextRun]_vars

(* The conversion: one track registered with the module omitted, and on it
   events at the timestamps of the tests and at a negative one, under both
   scales.  A call that would leave more than MaxConv records in the event
   log is not taken. *)

InConv == Len(_events') <= MaxConv

NextConv ==
    \/ \E n \in RunTrackNames : register_track(n, None) /\ InConv
    \/ \E t \in TrackInputs, c \in ConvStartCycles, n \in FewNames, k \in Categories :
           start_event(t, c, n, k) /\ InConv
    \/ \E t \in TrackInputs, c \in ConvEndCycles, k \in Categories :
           end_event(t, c, None, k) /\ InConv
    \/ \E t \in TrackInputs, s \in ConvStarts, e \in ConvEnds, d \in ConvDurs,
          n \in CompleteNames, k \in Categories :
           complete_event(t, s, e, d, n, k) /\ InConv

SpecConv == InitConv /\ [][NextConv]_vars

(* Two tracks side by side: the tracks registered with the module omitted,
   under each track name, with events of one timestamp and one name on them,
   and between these a module registered and the log saved.  A call that
   would leave more than MaxTwo records in the event log is not taken. *)

InTwo == Len(_events') <= MaxTwo

NextTwo ==
    \/ \E n \in FewModuleNames : register_module(n) /\ InTwo
    \/ \E n \in TrackNames : register_track(n, None) /\ InTwo
    \/ \E t \in TrackInputs, c \in FewCycles, n \in FewNames, k \in Categories :
           start_event(t, c, n, k) /\ InTwo
    \/ \E t \in TrackInputs, c \in FewCycles, k \in Categories :
           end_event(t, c, None, k) /\ InTwo
    \/ \E t \in TrackInputs, s \in FewCycles, e \in OptCycles, n \in CompleteNames,
          k \in Categories :
           complete_event(t, s, e, None, n, k) /\ InTwo
    \/ \E u \in DisplayTimeUnits : save(u)

SpecTwo == Init /\ [][NextTwo]_vars

(* The global tracer: the two classmethods, in any order, and beside them a
   module registered on the tracer at hand. *)

NextGlobal ==
    \/ \E scale \in GlobalScales : init_global_tracer(scale)
    \/ get_global_tracer
    \/ \E n \in FewModuleNames : register_module(n)

SpecGlobal == Init /\ [][NextGlobal]_vars

-----------------------------------------------------------------------------
(* Vocabulary of the properties *)

Depth(open, track_info) == Len(open[track_info])
IsPrefix(a, b) == Len(a) <= Len(b) /\ SubSeq(b, 1, Len(a)) = a
Registered(track_info) == track_info \in DictValues(_registered_tracks)
\* the records of the log that carry the identifiers of track_info
HasRecord(events, ph, track_info) ==
    \E i \in 1..Len(events) :
        /\ events[i].ph = ph
        /\ events[i].pid = track_info.module_info.pid
        /\ events[i].tid = track_info.tid

\* a call of start_event on t, made directly or by record_event on entry
StartsOn(t) ==
    /\ last'.op \in { "start_event", "record_event.enter" }
    /\ \E c \in Cycles, n \in EventNames, k \in Categories :
           start_event(t, c, n, k) \/ record_event_enter(t, c, n, k)
\* a direct call of end_event on t
EndsOn(t) ==
    /\ last'.op = "end_event"
    /\ \E c \in Cycles, n \in OptEventNames, k \in Categories : end_event(t, c, n, k)

-----------------------------------------------------------------------------
(* C1: for every registered track the open-event stack is empty when the
   track is registered, each start_event on the track raises its depth by
   exactly one, each successful end_event lowers it by exactly one, and
   end_event at depth 0 fails with a validation error and leaves the depth
   at 0 and the event log as it was. *)

C1_Step ==
    /\ \A t \in DOMAIN _open_events' :
           t \notin DOMAIN _open_events => _open_events'[t] = <<>>
    /\ \A t \in TrackInputs :
        /\ StartsOn(t) =>
               /\ last'.outcome = "ok"
               /\ Depth(_open_events', t) = Depth(_open_events, t) + 1
        /\ EndsOn(t) /\ last'.outcome = "ok" =>
               Depth(_open_events', t) = Depth(_open_events, t) - 1
        /\ EndsOn(t) /\ Depth(_open_events, t) = 0 =>
               /\ last'.outcome = "ValueError:NoOpenEvents"
               /\ Depth(_open_events', t) = 0
               /\ _events' = _events

C1_StackDepth == [][C1_Step]_vars

\* an event was begun and ended on a registered track, and a further
\* end_event on the emptied stack has just failed
C1_Witness ==
    /\ last.op = "end_event"
    /\ last.outcome = "ValueError:NoOpenEvents"
    /\ Len(_registered_tracks) = 1
    /\ \E t \in TrackInputs :
           /\ _open_events[t] = <<>>
           /\ HasRecord(_events, "B", t)
           /\ HasRecord(_events, "E", t)

-----------------------------------------------------------------------------
(* C2: end_event with a name on a non-empty stack fails with a validation
   error whenever the name differs from the name of the top open event, also
   when an open event deeper in the stack has that name, and then the stack
   and the event log are as before the call; with the name omitted or equal
   to the top name the call succeeds and removes the top entry. *)

C2_Step ==
    \A t \in TrackInputs, c \in Cycles, n \in OptEventNames, k \in Categories :
        last'.op = "end_event" /\ end_event(t, c, n, k) /\ _open_events[t] # <<>> =>
            LET stack == _open_events[t]
                top == stack[Len(stack)]
            IN  IF ~IsNone(n) /\ Val(n) # top.name
                THEN /\ last'.outcome = "ValueError:NameMismatch"
                     /\ _open_events' = _open_events
                     /\ _events' = _events
                ELSE /\ last'.outcome = "ok"
                     /\ _open_events'[t] = SubSeq(stack, 1, Len(stack) - 1)
                     /\ \A u \in DOMAIN _open_events :
                            u # t => _open_events'[u] = _open_events[u]

C2_TopOfStack == [][C2_Step]_vars

\* "outer" is open below "inner" on the only track, and an end_event that
\* named an event other than the top one has just failed
C2_Witness ==
    /\ last.op = "end_event"
    /\ last.outcome = "ValueError:NameMismatch"
    /\ Len(_registered_tracks) = 1
    /\ \E t \in TrackInputs :
           /\ Len(_open_events[t]) = 2
           /\ _open_events[t][1].name = "outer"
           /\ _open_events[t][2].name = "inner"

-----------------------------------------------------------------------------
(* record_event leaves its region: the innermost generator is resumed *)

LeavesRegion ==
    /\ last'.op \in { "record_event.exit", "record_event.throw" }
    /\ ctx # <<>>
    /\ ctx' = SubSeq(ctx, 1, Len(ctx) - 1)
Region == ctx[Len(ctx)]

(* C3, as stated: whenever the guarded region exits, normally or by a
   failure, an End record for the track is appended to the event log after
   the helper's Begin record and the stack depth of the track is back to the
   depth it had before record_event was entered. *)

C3_Original_Step ==
    LeavesRegion =>
        LET t == Region.track_info IN
        /\ Len(_events') = Len(_events) + 1
        /\ _events'[Len(_events')].ph = "E"
        /\ _events'[Len(_events')].tid = t.tid
        /\ Depth(_open_events', t) = Region.entry_depth

C3_Original == [][C3_Original_Step]_vars

(* C3, amended: whenever the guarded region exits, normally or by a failure,
   record_event calls end_event on the track once, with no name.  If the
   stack of the track is not empty then, an End record for the track is
   appended after the helper's Begin record and the top entry is popped, and
   the depth is back to the depth before entry exactly when the guarded work
   left the depth as it found it.  If the guarded work has emptied the stack,
   no End record is appended, the stacks stay as they are and the exit fails
   with the validation error of end_event. *)

C3_Amended_Step ==
    LeavesRegion =>
        LET t == Region.track_info
            stack == _open_events[t]
            begin == _events[Region.entry_log + 1]
        IN  /\ begin.ph = "B" /\ begin.tid = t.tid /\ begin.name = Region.name
            /\ IF stack # <<>>
               THEN /\ \E c \in Cycles :
                          _events' = Append(_events, EndEvent(t, _cycles_to_us(c), None))
                    /\ _open_events' =
                          [_open_events EXCEPT ![t] = SubSeq(stack, 1, Len(stack) - 1)]
                    /\ (Depth(_open_events', t) = Region.entry_depth
                          <=> Len(stack) = Region.entry_depth + 1)
               ELSE /\ _events' = _events
                    /\ _open_events' = _open_events
                    /\ last'.outcome = "ValueError:NoOpenEvents"

C3_ClosesTopOnExit == [][C3_Amended_Step]_vars

\* a region has just been left by a failure of the guarded work, the End
\* record is the last of the log and no event is left open
C3_Witness ==
    /\ last.op = "record_event.throw"
    /\ last.outcome \in WorkFailures
    /\ ctx = <<>>
    /\ _events[Len(_events)].ph = "E"
    /\ \A t \in DOMAIN _open_events : _open_events[t] = <<>>

-----------------------------------------------------------------------------
(* C4: when the guarded work fails with failure F, the caller of
   record_event observes F, whatever the guarded work did, start_event and
   end_event on the same track included. *)

C4_Step ==
    \A f \in WorkFailures, c \in Cycles :
        last'.op = "record_event.throw" /\ record_event_throw(f, c) =>
            last'.outcome = f

C4_FailureUnaltered == [][C4_Step]_vars

-----------------------------------------------------------------------------
(* C5: complete_event fails with a validation error when both end_ts and dur
   are given, when neither is, and when the duration, convert(end_ts) -
   convert(start_ts) or convert(dur), is negative, and then the event log is
   unchanged; otherwise, a duration of zero included, it appends exactly one
   Complete record with ts = convert(start_ts) and that duration. *)

C5_Step ==
    \A t \in TrackInputs, s \in FewCycles, e \in OptCycles, d \in OptCycles,
       n \in CompleteNames, k \in Categories :
        last'.op = "complete_event" /\ complete_event(t, s, e, d, n, k) =>
            IF (~IsNone(e) /\ ~IsNone(d)) \/ (IsNone(e) /\ IsNone(d))
            THEN /\ last'.outcome = "ValueError:ExactlyOne"
                 /\ _events' = _events
            ELSE LET duration == IF ~IsNone(e)
                                 THEN _cycles_to_us(Val(e)) - _cycles_to_us(s)
                                 ELSE _cycles_to_us(Val(d))
                 IN  IF duration < 0
                     THEN /\ last'.outcome = "ValueError:NegativeDuration"
                          /\ _events' = _events
                     ELSE /\ last'.outcome = "ok"
                          /\ Len(_events') = Len(_events) + 1
                          /\ IsPrefix(_events, _events')
                          /\ _events'[Len(_events')].ph = "X"
                          /\ _events'[Len(_events')].ts = _cycles_to_us(s)
                          /\ _events'[Len(_events')].dur = duration

C5_CompleteEvent == [][C5_Step]_vars

\* a Complete record of duration zero has just been appended
C5_Witness ==
    /\ last.op = "complete_event"
    /\ last.outcome = "ok"
    /\ _events[Len(_events)].ph = "X"
    /\ _events[Len(_events)].dur = 0

-----------------------------------------------------------------------------
(* The registry, as the properties read it *)

\* the process_name records of the log that name the module
ProcessNameRecords(events, module_name) ==
    { i \in 1..Len(events) :
        /\ events[i].ph = "M"
        /\ events[i].name = "process_name"
        /\ events[i].args.name = module_name }
\* the module a register_track call is made for
ModuleOf(module_info_arg) ==
    IF IsNone(module_info_arg)
    THEN register_module_call(DefaultModuleName).ret
    ELSE Val(module_info_arg)
\* the registry has an entry under the key of the module and the track name
HasTrack(module_info, track_name) ==
    DictHas(_registered_tracks, track_key(module_info.module_name, track_name))
TrackOf(tracks, module_info, track_name) ==
    DictGet(tracks, track_key(module_info.module_name, track_name))

(* C6: register_module is idempotent per name: a call for a name already
   registered returns the Module the registry holds for it, with that name,
   takes no new identifier and appends no record; and in every state the
   event log holds exactly one process_name record for each registered name,
   carrying the identifier of its Module. *)

C6_Step ==
    \A n \in ModuleNames :
        /\ last'.op = "register_module"
        /\ register_module(n)
        /\ DictHas(_registered_modules, n)
        => /\ last'.ret = DictGet(_registered_modules, n)
           /\ last'.ret.module_name = n
           /\ _next_pid' = _next_pid
           /\ _registered_modules' = _registered_modules
           /\ _events' = _events

C6_OneRecord ==
    \A i \in 1..Len(_registered_modules) :
        LET records == ProcessNameRecords(_events, _registered_modules[i].key) IN
        /\ Cardinality(records) = 1
        /\ \A r \in records : _events[r].pid = _registered_modules[i].value.pid

C6_ModuleIdempotent == [][C6_Step /\ C6_OneRecord']_vars

\* register_module has just returned a module that was not the last one to be
\* registered: the call was a repeated one
C6_Witness ==
    /\ last.op = "register_module"
    /\ last.outcome = "ok"
    /\ last.ret.pid + 1 < _next_pid

-----------------------------------------------------------------------------
(* C7: register_track is idempotent per (module, name): a call for a pair
   already registered returns the same Track, takes no new identifier, appends
   no record and leaves the open-event stacks as they are; and when another
   module has registered a track of the same name, the two Tracks are
   distinct, with different identifiers, each owned by its own module. *)

C7_Step ==
    \A n \in TrackNames, m \in ModuleInputs :
        last'.op = "register_track" /\ register_track(n, m) =>
            LET module_info == ModuleOf(m) IN
            /\ HasTrack(module_info, n) =>
                   /\ last'.ret = TrackOf(_registered_tracks, module_info, n)
                   /\ _next_tid' = _next_tid
                   /\ _events' = _events
                   /\ _open_events' = _open_events
            /\ \A track \in DictValues(_registered_tracks) :
                   track.track_name = n /\ track.module_info # module_info =>
                       /\ last'.ret # track
                       /\ last'.ret.tid # track.tid
                       /\ last'.ret.module_info = module_info

C7_TrackIdempotent == [][C7_Step]_vars

-----------------------------------------------------------------------------
(* C8: the track registry is keyed by the pair (module name, track name):
   the Track that register_track(name, module) returns is owned by that
   module and has that name, and it differs from the Track the registry
   holds for any other pair, also for names that contain '.'. *)

C8_Step ==
    \A n \in TrackNames, m \in ModuleInputs :
        last'.op = "register_track" /\ register_track(n, m) =>
            LET module_info == ModuleOf(m) IN
            /\ last'.ret.module_info = module_info
            /\ last'.ret.track_name = n
            /\ \A track \in DictValues(_registered_tracks') :
                   <<track.module_info.module_name, track.track_name>>
                       # <<module_info.module_name, n>>
                   => track.tid # last'.ret.tid

C8_KeyedByPair == [][C8_Step]_vars

-----------------------------------------------------------------------------
(* C9: in every reachable state the identifiers of the registered modules
   are pairwise distinct and so are those of the registered tracks, whatever
   their modules; the k-th module registered has identifier 100000 + (k-1)
   and the k-th track 1000 + (k-1), from two counters that do not touch each
   other; and the identifier of a registered Module or Track never changes. *)

C9_Identifiers ==
    /\ \A i \in 1..Len(_registered_modules) :
           _registered_modules[i].value.pid = FirstPid + (i - 1)
    /\ \A i \in 1..Len(_registered_tracks) :
           _registered_tracks[i].value.tid = FirstTid + (i - 1)
    /\ \A i, j \in 1..Len(_registered_modules) :
           i # j => _registered_modules[i].value.pid # _registered_modules[j].value.pid
    /\ \A i, j \in 1..Len(_registered_tracks) :
           i # j => _registered_tracks[i].value.tid # _registered_tracks[j].value.tid

C9_Step ==
    /\ \A i \in 1..Len(_registered_modules) :
           _registered_modules'[i] = _registered_modules[i]
    /\ \A i \in 1..Len(_registered_tracks) :
           _registered_tracks'[i] = _registered_tracks[i]

C9_UniqueIdentifiers == [][C9_Step /\ C9_Identifiers']_vars

\* two modules and two tracks are registered
C9_Witness ==
    /\ Len(_registered_modules) = 2
    /\ Len(_registered_tracks) = 2
    /\ last.op = "register_track"

-----------------------------------------------------------------------------
(* C10: the event log is append-only and in emission order: over every call,
   successful or failing, the log before is a prefix of the log after, and a
   failing end_event or complete_event appends nothing. *)

C10_Step ==
    /\ IsPrefix(_events, _events')
    /\ last'.op \in { "end_event", "complete_event" } /\ last'.outcome # "ok"
       => _events' = _events
    /\ last'.op \in { "get_module", "get_track", "list_modules", "list_tracks", "save" }
       => _events' = _events

C10_AppendOnly == [][C10_Step]_vars

\* with a Begin record in the log, an end_event or a complete_event has just failed
C10_Witness ==
    /\ last.op \in { "end_event", "complete_event" }
    /\ last.outcome # "ok"
    /\ \E i \in 1..Len(_events) : _events[i].ph = "B"

-----------------------------------------------------------------------------
(* C11: save puts out a document whose traceEvents is the event log as it
   stands, record for record and in order, and whose displayTimeUnit is the
   string asked for; it succeeds whatever events are open, and it changes
   neither the event log, nor the registries, nor a stack. *)

C11_Step ==
    \A u \in DisplayTimeUnits :
        last'.op = "save" /\ save(u) =>
            /\ last'.outcome = "ok"
            /\ last'.ret.traceEvents = _events
            /\ Len(last'.ret.traceEvents) = Len(_events')
            /\ last'.ret.displayTimeUnit = u
            /\ UNCHANGED <<_events, _registered_modules, _registered_tracks,
                           _open_events, _next_pid, _next_tid>>

C11_SaveWritesLog == [][C11_Step]_vars

\* save has put out a log that holds a Begin record of an event still open
C11_Witness ==
    /\ last.op = "save"
    /\ last.outcome = "ok"
    /\ \E t \in DOMAIN _open_events :
           /\ _open_events[t] # <<>>
           /\ HasRecord(last.ret.traceEvents, "B", t)

-----------------------------------------------------------------------------
(* C12: start_event, end_event and complete_event called with a track that
   register_track never returned each report a failure, and leave the event
   log and every open-event stack unchanged. *)

Unregistered == { t \in AnyTrackInputs : t \notin DOMAIN _open_events }

C12_Step ==
    \A t \in Unregistered, k \in Categories :
        /\ \A c \in FewCycles, n \in FewNames :
               last'.op = "start_event" /\ start_event(t, c, n, k) =>
                   /\ last'.outcome # "ok"
                   /\ _events' = _events
                   /\ _open_events' = _open_events
        /\ \A c \in FewCycles, n \in OptEventNames :
               last'.op = "end_event" /\ end_event(t, c, n, k) =>
                   /\ last'.outcome # "ok"
                   /\ _events' = _events
                   /\ _open_events' = _open_events
        /\ \A c \in FewCycles, e \in OptCycles, d \in OptCycles, n \in CompleteNames :
               last'.op = "complete_event" /\ complete_event(t, c, e, d, n, k) =>
                   /\ last'.outcome # "ok"
                   /\ _events' = _events
                   /\ _open_events' = _open_events

C12_UnregisteredFails == [][C12_Step]_vars

-----------------------------------------------------------------------------
(* C13: get_global_tracer called while the global pointer is None fails with
   RuntimeError and leaves the pointer None; init_global_tracer(s) returns a
   tracer T with scale s and sets the pointer to it, and get_global_tracer
   called while the pointer is set returns the tracer the pointer holds, so
   that a read that follows init_global_tracer(s) returns that T, with
   scale s. *)

C13_Step ==
    /\ last'.op = "get_global_tracer" /\ get_global_tracer =>
           IF IsNone(_global_instance)
           THEN /\ last'.outcome = "RuntimeError"
                /\ IsNone(_global_instance')
                /\ instances' = instances
           ELSE /\ last'.outcome = "ok"
                /\ last'.ret = _global_instance
                /\ _global_instance' = _global_instance
                /\ instances' = instances
                /\ last.op = "init_global_tracer" =>
                       /\ last'.ret = last.ret
                       /\ instances'[Val(last'.ret)] = instances[Val(last.ret)]
    /\ \A scale \in GlobalScales :
           last'.op = "init_global_tracer" /\ init_global_tracer(scale) =>
               /\ last'.outcome = "ok"
               /\ ~IsNone(last'.ret)
               /\ _global_instance' = last'.ret
               /\ instances'[Val(last'.ret)].ns_per_cycle = scale

C13_GlobalTracer == [][C13_Step]_vars

\* a read has returned the tracer that the latest call, init_global_tracer(5), constructed
C13_Witness ==
    /\ last.op = "get_global_tracer"
    /\ last.outcome = "ok"
    /\ last.ret = Some(Len(instances))
    /\ instances[Val(last.ret)].ns_per_cycle = 5

-----------------------------------------------------------------------------
(* C14: the global pointer is set once: every read that succeeds returns
   the tracer of the first init_global_tracer call, the first tracer
   constructed, whatever init_global_tracer and get_global_tracer calls
   came between. *)

C14_SetOnce ==
    last.op = "get_global_tracer" /\ last.outcome = "ok" => last.ret = Some(1)

-----------------------------------------------------------------------------
(* C15: the timestamp and the duration stored in a Begin, End or Complete
   record is c * s / 1000 microseconds for the cycle value c of the call and
   the scale s of the tracer, negative c included.  With s = 50 the calls
   start_event(10), start_event(20), end_event(40), end_event(60) on one
   track store 0.5, 1.0, 2.0, 3.0 in that order in the log and leave the
   stack empty; with s = 10, complete_event(start_ts = 100, end_ts = 160)
   stores ts 1.0 and dur 0.6.  Times are in thousandths of a microsecond
   here: c * s / 1000 us is c * s, and 0.5 us is 500. *)

Newest(events) == events[Len(events)]
\* the timestamps of the newest n records of the log
NewestTs(events, n) == [i \in 1..n |-> events[Len(events) - n + i].ts]
NewestPh(events, n) == [i \in 1..n |-> events[Len(events) - n + i].ph]

C15_Step ==
    \A t \in TrackInputs, k \in Categories :
        /\ \A c \in ConvStartCycles, n \in FewNames :
               last'.op = "start_event" /\ start_event(t, c, n, k) =>
                   /\ Len(_events') = Len(_events) + 1
                   /\ Newest(_events').ph = "B"
                   /\ Newest(_events').ts = c * ns_per_cycle
                   /\ ns_per_cycle = 50 /\ c = 10 => Newest(_events').ts = 500
                   /\ ns_per_cycle = 50 /\ c = 20 => Newest(_events').ts = 1000
        /\ \A c \in ConvEndCycles :
               /\ last'.op = "end_event"
               /\ last'.outcome = "ok"
               /\ end_event(t, c, None, k)
               => /\ Len(_events') = Len(_events) + 1
                  /\ Newest(_events').ph = "E"
                  /\ Newest(_events').ts = c * ns_per_cycle
                  /\ ns_per_cycle = 50 /\ c = 40 => Newest(_events').ts = 2000
                  /\ /\ ns_per_cycle = 50
                     /\ c = 60
                     /\ Len(_events) >= 3
                     /\ NewestPh(_events, 3) = <<"B", "B", "E">>
                     /\ NewestTs(_events, 3) = <<500, 1000, 2000>>
                     /\ Depth(_open_events, t) = 1
                     => /\ NewestPh(_events', 4) = <<"B", "B", "E", "E">>
                        /\ NewestTs(_events', 4) = <<500, 1000, 2000, 3000>>
                        /\ Depth(_open_events', t) = 0
        /\ \A c \in ConvStarts, e \in ConvEnds, d \in ConvDurs, n \in CompleteNames :
               /\ last'.op = "complete_event"
               /\ last'.outcome = "ok"
               /\ complete_event(t, c, e, d, n, k)
               => /\ Len(_events') = Len(_events) + 1
                  /\ Newest(_events').ph = "X"
                  /\ Newest(_events').ts = c * ns_per_cycle
                  /\ IsNone(e) => Newest(_events').dur = Val(d) * ns_per_cycle
                  /\ IsNone(d) => Newest(_events').dur = (Val(e) - c) * ns_per_cycle
                  /\ ns_per_cycle = 10 /\ c = 100 /\ e = Some(160) =>
                         /\ Newest(_events').ts = 1000
                         /\ Newest(_events').dur = 600

-----------------------------------------------------------------------------
(* C16: register_track(name) without a module takes the module "default" by
   the rule of register_module.  When "default" is not registered it is made
   first: it takes the next module identifier (100000 when it is the first
   module) and its process_name record is appended before the thread_name
   record of the track.  When "default" is registered, by an earlier
   register_track or by register_module("default"), that Module is the one
   used and no second process_name record is appended. *)

C16_Step ==
    \A n \in TrackNames :
        last'.op = "register_track" /\ register_track(n, None) =>
            /\ DictHas(_registered_modules', DefaultModuleName)
            /\ last'.ret.module_info = DictGet(_registered_modules', DefaultModuleName)
            /\ Cardinality(ProcessNameRecords(_events', DefaultModuleName)) = 1
            /\ IF DictHas(_registered_modules, DefaultModuleName)
               THEN /\ _registered_modules' = _registered_modules
                    /\ _next_pid' = _next_pid
                    /\ ProcessNameRecords(_events', DefaultModuleName)
                           = ProcessNameRecords(_events, DefaultModuleName)
               ELSE /\ last'.ret.module_info = ModuleInfo(_next_pid, DefaultModuleName)
                    /\ _registered_modules = <<>> => last'.ret.module_info.pid = 100000
                    /\ _next_pid' = _next_pid + 1
                    /\ Len(_events') = Len(_events) + 2
                    /\ _events'[Len(_events) + 1]
                           = ProcessNameEvent(_next_pid, DefaultModuleName)
                    /\ _events'[Len(_events) + 2]
                           = ThreadNameEvent(_next_pid, last'.ret.tid, n)

C16_DefaultModule == [][C16_Step]_vars

\* register_track has returned a track of a "default" module that was not the
\* first module registered, and that a second track uses as well
C16_Witness ==
    /\ last.op = "register_track"
    /\ last.ret.module_info.module_name = DefaultModuleName
    /\ last.ret.module_info.pid # FirstPid
    /\ \E t \in DictValues(_registered_tracks) :
           t # last.ret /\ t.module_info = last.ret.module_info

-----------------------------------------------------------------------------
(* C17: when every call is made with a track that register_track returned,
   in every state and for each registered track: the depth of its stack is
   the number of Begin records less the number of End records that carry
   its identifiers in the log; no prefix of the log holds more End than
   Begin records of the track; and the names on the stack, bottom to top,
   are the names of the Begin records still unmatched, in log order. *)

IsRecordOf(record, ph, track_info) ==
    /\ record.ph = ph
    /\ record.pid = track_info.module_info.pid
    /\ record.tid = track_info.tid

CountOf(events, ph, track_info) ==
    Cardinality({ i \in 1..Len(events) : IsRecordOf(events[i], ph, track_info) })

\* the names of the Begin records of the track that no End record has matched,
\* in log order, each End record matching the nearest unmatched Begin before it
RECURSIVE UnmatchedNames(_, _)
UnmatchedNames(events, track_info) ==
    IF events = <<>>
    THEN <<>>
    ELSE LET before == UnmatchedNames(SubSeq(events, 1, Len(events) - 1), track_info)
             record == events[Len(events)]
         IN  IF IsRecordOf(record, "B", track_info)
             THEN Append(before, record.name)
             ELSE IF IsRecordOf(record, "E", track_info) /\ before # <<>>
                  THEN SubSeq(before, 1, Len(before) - 1)
                  ELSE before

StackNames(stack) == [i \in 1..Len(stack) |-> stack[i].name]

C17_StackMatchesLog ==
    \A t \in DictValues(_registered_tracks) :
        /\ Depth(_open_events, t) = CountOf(_events, "B", t) - CountOf(_events, "E", t)
        /\ \A n \in 0..Len(_events) :
               CountOf(SubSeq(_events, 1, n), "E", t)
                   <= CountOf(SubSeq(_events, 1, n), "B", t)
        /\ StackNames(_open_events[t]) = UnmatchedNames(_events, t)

\* an inner event has been ended and the outer one is open, under another name
C17_Witness ==
    \E t \in DictValues(_registered_tracks) :
        /\ CountOf(_events, "B", t) = 2
        /\ CountOf(_events, "E", t) = 1
        /\ StackNames(_open_events[t]) = <<"outer">>
        /\ \E i \in 1..Len(_events) :
               IsRecordOf(_events[i], "B", t) /\ _events[i].name = "inner"

-----------------------------------------------------------------------------
(* C18: in every state the event log holds exactly one process_name record
   for each registered module and exactly one thread_name record for each
   registered track, carrying the identifiers and the name given at
   registration, and no other Metadata record, so that their numbers are the
   sizes of the two registries; and only register_module and register_track
   add a Metadata record to the log. *)

ThreadNameRecords(events, track_info) ==
    { i \in 1..Len(events) :
        /\ events[i].ph = "M"
        /\ events[i].name = "thread_name"
        /\ events[i] = ThreadNameEvent(track_info.module_info.pid, track_info.tid,
                                       track_info.track_name) }

MetadataRecords(events, name) ==
    { i \in 1..Len(events) : events[i].ph = "M" /\ events[i].name = name }

C18_OnePerIdentity ==
    /\ \A i \in 1..Len(_registered_modules) :
           LET m == _registered_modules[i].value IN
           /\ m.module_name = _registered_modules[i].key
           /\ Cardinality(ProcessNameRecords(_events, m.module_name)) = 1
           /\ \A r \in ProcessNameRecords(_events, m.module_name) :
                  _events[r] = ProcessNameEvent(m.pid, m.module_name)
    /\ \A t \in DictValues(_registered_tracks) :
           Cardinality(ThreadNameRecords(_events, t)) = 1
    /\ Cardinality(MetadataRecords(_events, "process_name")) = Len(_registered_modules)
    /\ Cardinality(MetadataRecords(_events, "thread_name")) = Len(_registered_tracks)
    /\ \A i \in 1..Len(_events) :
           _events[i].ph = "M" => _events[i].name \in { "process_name", "thread_name" }

C18_Step ==
    /\ C18_OnePerIdentity'
    /\ last'.op \notin { "register_module", "register_track" } =>
           { i \in 1..Len(_events') : _events'[i].ph = "M" }
               = { i \in 1..Len(_events) : _events[i].ph = "M" }

C18_MetadataOnce == [][C18_Step]_vars

\* two modules and two tracks are registered, their four records are the whole
\* log, and a call that is not a registration has just been made
C18_Witness ==
    /\ Len(_registered_modules) = 2
    /\ Len(_registered_tracks) = 2
    /\ Len(_events) = 4
    /\ last.op \in { "save", "end_event", "complete_event" }

-----------------------------------------------------------------------------
(* C19: the open-event stacks are kept per track: start_event and end_event
   on a track T leave the stack of every other registered track as it was;
   complete_event, whether it succeeds or fails, register_module and save
   leave every stack as it was; and register_track leaves the stack of every
   track registered before as it was. *)

OthersKept(track_info) ==
    \A u \in DOMAIN _open_events :
        u # track_info => u \in DOMAIN _open_events' /\ _open_events'[u] = _open_events[u]

C19_Step ==
    /\ \A t \in TrackInputs, k \in Categories :
           /\ \A c \in FewCycles, n \in FewNames :
                  last'.op = "start_event" /\ start_event(t, c, n, k) => OthersKept(t)
           /\ \A c \in FewCycles :
                  last'.op = "end_event" /\ end_event(t, c, None, k) => OthersKept(t)
    /\ last'.op \in { "complete_event", "register_module", "save" } =>
           _open_events' = _open_events
    /\ last'.op = "register_track" =>
           \A u \in DOMAIN _open_events :
               u \in DOMAIN _open_events' /\ _open_events'[u] = _open_events[u]

C19_StacksIsolated == [][C19_Step]_vars

\* an event of one track has been ended while an event of another track is open
C19_Witness ==
    /\ last.op = "end_event"
    /\ last.outcome = "ok"
    /\ \E t, u \in DOMAIN _open_events :
           /\ t # u
           /\ _open_events[u] # <<>>
           /\ IsRecordOf(Newest(_events), "E", t)

-----------------------------------------------------------------------------
(* C20: whether end_event succeeds is a matter of the stack of the track and
   of the name given, never of the timestamp: on a registered track whose
   stack is not empty, end_event with the name of the top entry, or with no
   name, succeeds for every ts_cycles, also one below the timestamp the
   event was begun at, and appends an End record with that timestamp
   converted. *)

C20_Step ==
    \A t \in TrackInputs, n \in OptEventNames, k \in Categories :
        /\ \A c, d \in Cycles :
               end_event_call(t, c, n, k).outcome = end_event_call(t, d, n, k).outcome
        /\ \A c \in Cycles :
               /\ last'.op = "end_event"
               /\ end_event(t, c, n, k)
               /\ _open_events[t] # <<>>
               /\ IsNone(n) \/ Val(n) = _open_events[t][Len(_open_events[t])].name
               => /\ last'.outcome = "ok"
                  /\ _events' = Append(_events, Newest(_events'))
                  /\ IsRecordOf(Newest(_events'), "E", t)
                  /\ Newest(_events').ts = c * ns_per_cycle

C20_EndIgnoresTime == [][C20_Step]_vars

\* an event begun at cycle 1 has been ended at cycle -1
C20_Witness ==
    /\ last.op = "end_event"
    /\ last.outcome = "ok"
    /\ Len(_events) >= 2
    /\ NewestPh(_events, 2) = <<"B", "E">>
    /\ NewestTs(_events, 2) = <<ns_per_cycle, -ns_per_cycle>>

====
